---- MODULE Spec2Model ----
(***************************************************************************)
(* Verification model of the decision engine of defi-arbitrage-dashboard:  *)
(*   - the exit monitor of SolanaSniper (src/src/snipers/solanaSniper.js), *)
(*     one polling timer per position, with its asynchronous callbacks;    *)
(*   - the MEVTradingManager cycle (src/unnamed/part_002).                 *)
(* Amounts are integers.  Time is counted in polling intervals.            *)
(***************************************************************************)
EXTENDS Integers, Sequences, FiniteSets, Bags, TLC

VARIABLES
    \* ---- SolanaSniper.monitorForSell: one monitored position ----
    mstate,         \* "unstarted" | "started": monitorForSell has been called
    timerOn,        \* the setInterval handle checkInterval is live
    now,            \* Date.now(), in polling intervals
    startTime,      \* const startTime
    highestValue,   \* let highestValue
    observedMax,    \* the greatest currentValue any tick has computed so far
    initialPrice,   \* let initialPrice (0 stands for null)
    held,           \* the wallet's real token balance on chain
    cbs,            \* the interval callbacks in flight (a bag of Callback records)
    sellCalls,      \* number of calls of executeSell by this monitor
    zeroSeen,       \* a tick within the time limit has read a real balance of zero
    closedBy,       \* what first called clearInterval ("open" while none has)
    lastEvent,      \* the last step of the monitor: its operation and what the feed returned
    decision,       \* the exit rules as the last step evaluated them, if it did
    \* ---- MEVTradingManager ----
    isActive,           \* this.isActive
    config,             \* this.config: enable_token_sniping, max_concurrent_strategies
    total_balance_usd,  \* portfolioState.total_balance_usd
    active_positions,   \* portfolioState.active_positions: component_id -> position
    daily_pnl,          \* portfolioState.daily_pnl
    total_trades,       \* portfolioState.total_trades
    successful_trades,  \* portfolioState.successful_trades
    win_rate,           \* portfolioState.win_rate, as the ratio num / den last computed
    strategyStats,      \* this.strategyStats: strategy type -> statistics
    cycles,             \* number of cycles run so far (the clock of Date.now())
    lastCycle,          \* what the last cycle was given, did and returned
    \* SandwichDetector.detect_sandwich_opportunity, TokenSniper.snipe_token_launch
    request,            \* the arguments of the call
    response,           \* what the call returned, once it has
    previous,           \* what the call before it returned, on the same arguments
    detectorClock,      \* Date.now() as the detector reads it
    bot,                \* SolanaSniper: isRunning, monitoredTokens and its polling loops
    nodes,              \* NodeManager: the nodes, their health checks, and their real condition
    discovery           \* TokenDiscoveryEngine: discoveredTokens and its callback fields

monVars == <<mstate, timerOn, now, startTime, highestValue, observedMax, initialPrice, held,
             cbs, sellCalls, zeroSeen, closedBy, lastEvent, decision>>

mgrVars == <<isActive, config, total_balance_usd, active_positions, daily_pnl,
             total_trades, successful_trades, win_rate, strategyStats, cycles, lastCycle>>

scVars == <<request, response, previous, detectorClock>>

botVars == <<bot>>

nodeVars == <<nodes>>

discVars == <<discovery>>

vars == <<mstate, timerOn, now, startTime, highestValue, observedMax, initialPrice, held,
          cbs, sellCalls, zeroSeen, closedBy, lastEvent, decision,
          isActive, config, total_balance_usd, active_positions, daily_pnl,
          total_trades, successful_trades, win_rate, strategyStats, cycles, lastCycle,
          request, response, previous, detectorClock, bot, nodes, discovery>>

----------------------------------------------------------------------------
(* Bounds of the model *)

MaxTicks == 3         \* polling intervals that elapse
MaxInFlight == 2      \* interval callbacks awaiting at the same time
MaxBal == 3           \* token balance bought
MaxTokens == 2        \* tokens the platforms list
MaxListed == 1        \* tokens in the response of one poll
MaxBlock == 2         \* block number a node reaches
MaxDiscovered == 3    \* tokens the discovery sources list
MaxPrice == 2         \* highest price the feed reports

(* sellConditions of setupAutoSell; ratios in tenths, the time limit in    *)
(* polling intervals (the code: 3600000 ms at 5000 ms per tick).           *)
ProfitTarget10 == 20
StopLoss10 == 5
TrailingStop10 == 8
TimeLimit == 2

Prices == 1..MaxPrice
NoPrice == 0          \* getTokenPrice: `price || null`; 0 and null are both falsy

NoDecision == [profit |-> FALSE, stop |-> FALSE, trail |-> FALSE, reason |-> "none"]

(* A step of the monitor: the operation, whether the awaited call succeeded, *)
(* and the value it returned.                                                *)
Event(op, ok, val) == [op |-> op, ok |-> ok, val |-> val]

----------------------------------------------------------------------------
(* Helpers *)

Max_latest(a, b) == b

Max(a, b) == IF a > b THEN a ELSE b

(* The callback of one tick: where it is awaiting, the balance it read, the *)
(* reason it passed to executeSell.                                         *)
Callback(pc, bal, reason) == [pc |-> pc, bal |-> bal, reason |-> reason]

(* The callbacks in flight once callback c has ended, and once it has moved on to d *)
Ended(c) == cbs (-) SetToBag({c})

Moved(c, d) == (cbs (-) SetToBag({c})) (+) SetToBag({d})

TimeLimitExceeded_swapped(t) == startTime - t > TimeLimit

(* Date.now() - startTime > conditions.timeLimit *)
TimeLimitExceeded(t) == t - startTime > TimeLimit

PriceAvailable_unguarded(p) == TRUE

(* if (!currentPrice) return; *)
PriceAvailable(p) == p # NoPrice

(* profitMultiplier >= conditions.profitTarget, with profitMultiplier = currentPrice / initialPrice *)
ProfitTargetHit(price, initial) == 10 * price >= ProfitTarget10 * initial

(* profitMultiplier <= conditions.stopLoss *)
StopLossHit(price, initial) == 10 * price <= StopLoss10 * initial

(* currentValue < highestValue * conditions.trailingStop *)
TrailingStopHit(value, highest) == 10 * value < TrailingStop10 * highest

ExitReason_trailingFirst(price, initial, value, highest) ==
    IF TrailingStopHit(value, highest) THEN "trailing"
    ELSE IF ProfitTargetHit(price, initial) THEN "profit"
    ELSE IF StopLossHit(price, initial) THEN "stop"
    ELSE "none"

(* The chain of exit checks of one tick, in the order of the code *)
ExitReason(price, initial, value, highest) ==
    IF ProfitTargetHit(price, initial) THEN "profit"
    ELSE IF StopLossHit(price, initial) THEN "stop"
    ELSE IF TrailingStopHit(value, highest) THEN "trailing"
    ELSE "none"

(* getTokenBalance: the balance on chain, or 0 from the catch block *)
TokenBalance(ok) == IF ok THEN held ELSE 0

(* What a step leaves in lastEvent; a step that evaluates no exit rule      *)
(* leaves no decision.                                                      *)
Note(op, ok, val) ==
    /\ lastEvent' = Event(op, ok, val)
    /\ decision' = NoDecision

(* clearInterval(checkInterval) *)
ClearInterval(by) ==
    /\ timerOn' = FALSE
    /\ closedBy' = IF closedBy = "open" THEN by ELSE closedBy

----------------------------------------------------------------------------
(* SolanaSniper.monitorForSell *)

MonConstructed ==
    /\ mstate = "unstarted"
    /\ timerOn = FALSE
    /\ now = 0
    /\ startTime = 0
    /\ highestValue = 0
    /\ observedMax = 0
    /\ initialPrice = NoPrice
    /\ held \in 1..MaxBal
    /\ cbs = EmptyBag
    /\ sellCalls = 0
    /\ zeroSeen = FALSE
    /\ closedBy = "open"
    /\ lastEvent = Event("init", TRUE, 0)
    /\ decision = NoDecision

(* monitorForSell is called by setupAutoSell after the buy: the timer starts *)
MonitorForSell ==
    /\ mstate = "unstarted"
    /\ mstate' = "started"
    /\ timerOn' = TRUE
    /\ startTime' = now
    /\ highestValue' = 0
    /\ observedMax' = 0
    /\ initialPrice' = NoPrice
    /\ Note("start", TRUE, 0)
    /\ UNCHANGED <<now, held, cbs, sellCalls, zeroSeen, closedBy>>

Tick_fetchesFirst ==
    /\ mstate = "started"
    /\ timerOn
    /\ now < MaxTicks
    /\ BagCardinality(cbs) < MaxInFlight
    /\ now' = now + 1
    /\ cbs' = cbs (+) SetToBag({Callback("balance", 0, "none")})
    /\ sellCalls' = sellCalls
    /\ Note("tick", TRUE, 0)
    /\ UNCHANGED <<mstate, timerOn, startTime, highestValue, observedMax, initialPrice, held,
                   zeroSeen, closedBy>>

(* One polling interval elapses and the interval callback runs up to its   *)
(* first await: the time-limit check, then executeSell or getTokenBalance.  *)
Tick ==
    /\ mstate = "started"
    /\ timerOn
    /\ now < MaxTicks
    /\ BagCardinality(cbs) < MaxInFlight
    /\ now' = now + 1
    /\ IF TimeLimitExceeded(now')
       THEN /\ cbs' = cbs (+) SetToBag({Callback("sell_balance", 0, "time")})
            /\ sellCalls' = sellCalls + 1
       ELSE /\ cbs' = cbs (+) SetToBag({Callback("balance", 0, "none")})
            /\ sellCalls' = sellCalls
    /\ Note("tick", TRUE, 0)
    /\ UNCHANGED <<mstate, timerOn, startTime, highestValue, observedMax, initialPrice, held,
                   zeroSeen, closedBy>>

OnZeroBalance_keepsPolling(c) ==
    /\ cbs' = Ended(c)
    /\ UNCHANGED <<timerOn, closedBy>>

(* if (balance === 0) { clearInterval(checkInterval); return; } *)
OnZeroBalance(c) ==
    /\ ClearInterval("balance_zero")
    /\ cbs' = Ended(c)

(* The tick resumes after `await this.getTokenBalance(tokenMint)` *)
MonBalance(c) ==
    /\ BagIn(c, cbs)
    /\ c.pc = "balance"
    /\ \E ok \in BOOLEAN :
         LET balance == TokenBalance(ok) IN
         /\ Note("balance", ok, balance)
         /\ IF balance = 0
            THEN /\ OnZeroBalance(c)
                 /\ zeroSeen' = (zeroSeen \/ ok)
            ELSE /\ cbs' = Moved(c, Callback("price", balance, "none"))
                 /\ UNCHANGED <<timerOn, closedBy, zeroSeen>>
    /\ UNCHANGED <<mstate, now, startTime, highestValue, observedMax, initialPrice, held,
                   sellCalls>>

(* The tick resumes after `await this.getTokenPrice(tokenMint)` and runs to *)
(* the end of the callback or to the call of executeSell.                   *)
MonPrice(c) ==
    /\ BagIn(c, cbs)
    /\ c.pc = "price"
    /\ \E currentPrice \in Prices \cup {NoPrice} :
         /\ lastEvent' = Event("price", currentPrice # NoPrice, currentPrice)
         /\ IF ~PriceAvailable(currentPrice)
            THEN /\ cbs' = Ended(c)
                 /\ decision' = NoDecision
                 /\ UNCHANGED <<highestValue, observedMax, initialPrice, sellCalls>>
            ELSE LET initial == IF initialPrice = NoPrice THEN currentPrice ELSE initialPrice
                     currentValue == c.bal * currentPrice
                     highest == Max(highestValue, currentValue)
                     reason == ExitReason(currentPrice, initial, currentValue, highest)
                 IN  /\ initialPrice' = initial
                     /\ highestValue' = highest
                     /\ observedMax' = IF currentValue > observedMax THEN currentValue
                                       ELSE observedMax
                     /\ decision' = [profit |-> ProfitTargetHit(currentPrice, initial),
                                     stop |-> StopLossHit(currentPrice, initial),
                                     trail |-> TrailingStopHit(currentValue, highest),
                                     reason |-> reason]
                     /\ IF reason = "none"
                        THEN /\ cbs' = Ended(c)
                             /\ sellCalls' = sellCalls
                        ELSE /\ cbs' = Moved(c, Callback("sell_balance", 0, reason))
                             /\ sellCalls' = sellCalls + 1
    /\ UNCHANGED <<mstate, timerOn, now, startTime, held, zeroSeen, closedBy>>

(* `await this.executeSell(...)` returned: the tick calls clearInterval and ends *)
AfterSell(c) ==
    /\ ClearInterval(c.reason)
    /\ cbs' = Ended(c)

(* executeSell resumes after its own `await this.getTokenBalance(tokenMint)` *)
SellBalance(c) ==
    /\ BagIn(c, cbs)
    /\ c.pc = "sell_balance"
    /\ \E ok \in BOOLEAN :
         LET balance == TokenBalance(ok) IN
         /\ Note("sell_balance", ok, balance)
         /\ IF balance = 0
            THEN AfterSell(c)
            ELSE /\ cbs' = Moved(c, Callback("sell_routes", balance, c.reason))
                 /\ UNCHANGED <<timerOn, closedBy>>
    /\ UNCHANGED <<mstate, now, startTime, highestValue, observedMax, initialPrice, held,
                   sellCalls, zeroSeen>>

(* executeSell resumes after `await this.jupiter.computeRoutes(...)`: a     *)
(* route, no route, or an exception caught by executeSell.                  *)
SellRoutes(c) ==
    /\ BagIn(c, cbs)
    /\ c.pc = "sell_routes"
    /\ \E r \in {"routes", "no_routes", "throws"} :
         /\ Note("sell_routes", TRUE, 0)
         /\ IF r = "routes"
            THEN /\ cbs' = Moved(c, [c EXCEPT !.pc = "sell_exchange"])
                 /\ UNCHANGED <<timerOn, closedBy>>
            ELSE AfterSell(c)
    /\ UNCHANGED <<mstate, now, startTime, highestValue, observedMax, initialPrice, held,
                   sellCalls, zeroSeen>>

(* executeSell resumes after `await this.jupiter.exchange(...)` *)
SellExchange(c) ==
    /\ BagIn(c, cbs)
    /\ c.pc = "sell_exchange"
    /\ \E r \in {"execute", "throws"} :
         /\ Note("sell_exchange", TRUE, 0)
         /\ IF r = "execute"
            THEN /\ cbs' = Moved(c, [c EXCEPT !.pc = "sell_execute"])
                 /\ UNCHANGED <<timerOn, closedBy>>
            ELSE AfterSell(c)
    /\ UNCHANGED <<mstate, now, startTime, highestValue, observedMax, initialPrice, held,
                   sellCalls, zeroSeen>>

(* executeSell resumes after `await execute(...)`: the swap went through    *)
(* (it sold the amount read by executeSell) or it did not.                  *)
SellExecute(c) ==
    /\ BagIn(c, cbs)
    /\ c.pc = "sell_execute"
    /\ \E r \in {"txid", "no_txid", "throws"} :
         /\ r = "txid" => held >= c.bal
         /\ held' = IF r = "txid" THEN held - c.bal ELSE held
         /\ Note("sell_execute", r = "txid", 0)
    /\ AfterSell(c)
    /\ UNCHANGED <<mstate, now, startTime, highestValue, observedMax, initialPrice,
                   sellCalls, zeroSeen>>

(* The environment: part or all of the balance leaves the wallet by other means *)
ExternalSale ==
    /\ held > 0
    /\ \E h \in 0..(held - 1) : held' = h
    /\ Note("external", TRUE, 0)
    /\ UNCHANGED <<mstate, timerOn, now, startTime, highestValue, observedMax, initialPrice,
                   cbs, sellCalls, zeroSeen, closedBy>>

CallbackStep ==
    \/ \E c \in BagToSet(cbs) : MonBalance(c)
    \/ \E c \in BagToSet(cbs) : MonPrice(c)
    \/ \E c \in BagToSet(cbs) : SellBalance(c)
    \/ \E c \in BagToSet(cbs) : SellRoutes(c)
    \/ \E c \in BagToSet(cbs) : SellExchange(c)
    \/ \E c \in BagToSet(cbs) : SellExecute(c)

----------------------------------------------------------------------------
(* MEVTradingManager (src/unnamed/part_002) *)

(* Bounds of the manager model *)
MaxCycles == 2          \* calls of the cycle
MaxBatch == 2           \* scored opportunities given to one cycle
MaxTxs == 1             \* pending transactions given to one cycle
MaxBalanceUnits == 3    \* total balance, in halves of SolPriceUsd
MaxConcurrent == 2      \* config.max_concurrent_strategies

(* Constants of the code *)
SolPriceUsd == 2500         \* `* 2500` of _calculate_available_capital and _execute_sandwich_attack
SnipeCapitalUsd == 1000     \* capital_used of _execute_token_snipe
SnipeProfitUsd == 100       \* estimated_profit of _execute_token_snipe
SnipePriority == 70         \* priority of a token_snipe opportunity
MinScore == 50              \* opportunity_score > 50

Balances == {k * (SolPriceUsd \div 2) : k \in 0..MaxBalanceUnits}

NoPositions == <<>>

NoStats == <<>>

NoTracking == [present |-> FALSE, sol_invested |-> 0]

NoCycle == [entry |-> "none", result |-> "none", analyzed |-> 0, executed |-> 0,
            available |-> 0, used |-> 0, overdrawn |-> FALSE, passed_over |-> FALSE,
            dispatched |-> {}, threw |-> "none",
            ranked_by_score |-> TRUE, ties_by_gas |-> TRUE, all_scored |-> TRUE,
            routers_recognised |-> TRUE]

(* ---- the opportunities _analyze_mempool_transactions builds ---- *)

(* { type: 'sandwich_attack', transaction, opportunity: sandwichOpp, priority: opportunity_score } *)
(* gas_cost is the total_gas_usd the detector estimated when it scored the  *)
(* transaction; the result of the detector does not carry it.               *)
SandwichOpportunity(score, front, profit, gas) ==
    [type |-> "sandwich_attack", priority |-> score, scored |-> TRUE,
     front_run_amount |-> front, estimated_profit |-> profit, gas_cost |-> gas]

(* { type: 'token_snipe', transaction, priority: 70 }: it has no `opportunity` field *)
SnipeOpportunity ==
    [type |-> "token_snipe", priority |-> SnipePriority, scored |-> FALSE,
     front_run_amount |-> 0, estimated_profit |-> 0, gas_cost |-> 0]

(* The scored batches the cycle is tried on: scores above MinScore, front-run *)
(* amounts of 1 and 2 ETH, an estimated profit or none, gas costs estimated     *)
(* under a gas price of 20 and of 10 gwei.                                     *)
Opportunities ==
    {SandwichOpportunity(90, 1, 120, 20), SandwichOpportunity(90, 2, 120, 10),
     SandwichOpportunity(60, 1, 0, 20), SnipeOpportunity}

SeqsUpTo(S, n) == UNION {[1..k -> S] : k \in 0..n}

(* ---- pending transactions ---- *)

RouterIds == {"uniswap_v2", "uniswap_v3", "oneinch_v4"}

(* An address string: whose address it is and how its hex digits are cased *)
Address(id, form) == [id |-> id, form |-> form]

(* String.prototype.toLowerCase *)
ToLowerCase(a) == [a EXCEPT !.form = "lower"]

(* const dexRouters = [...]: the three literals, written in checksum case *)
DexRouters == {Address(r, "checksum") : r \in RouterIds}

(* dexRouters.includes(transaction.to?.toLowerCase()) *)
IsDexSwap(tx) == ToLowerCase(tx.to) \in DexRouters

(* The transaction is addressed to one of the listed routers, in whatever   *)
(* case its `to` is written.                                                *)
AddressedToRouter(tx) == tx.to.id \in RouterIds

(* Every transaction of the batch addressed to a listed router passes       *)
(* _is_dex_swap                                                             *)
RoutersRecognised(txs) ==
    \A k \in 1..Len(txs) : AddressedToRouter(txs[k]) => IsDexSwap(txs[k])

(* transaction.data?.includes('0x60806040') *)
IsNewTokenLaunch(tx) == tx.creation

(* What SandwichDetector.detect_sandwich_opportunity returns for the transaction *)
Detected(success, score, front, profit, gas) ==
    [success |-> success, opportunity_score |-> score,
     front_run_amount |-> front, estimated_profit |-> profit, total_gas_usd |-> gas]

(* A pending transaction: its `to`, whether its data holds contract-creation *)
(* bytecode, and what the detector makes of it under the gas context of the  *)
(* cycle, which is the same for every transaction of the cycle.              *)
Tx(to, creation, detected) == [to |-> to, creation |-> creation, detected |-> detected]

Transactions ==
    {Tx(Address("uniswap_v2", "checksum"), FALSE, Detected(TRUE, 90, 1, 120, 20)),
     Tx(Address("uniswap_v2", "lower"), FALSE, Detected(TRUE, 90, 1, 120, 20)),
     Tx(Address("uniswap_v2", "lower"), FALSE, Detected(TRUE, 40, 1, 120, 20)),
     Tx(Address("other", "lower"), FALSE, Detected(FALSE, 0, 0, 0, 0)),
     Tx(Address("other", "lower"), TRUE, Detected(FALSE, 0, 0, 0, 0))}

(* _analyze_mempool_transactions *)
RECURSIVE AnalyzeMempool(_)
AnalyzeMempool(txs) ==
    IF txs = <<>> THEN <<>>
    ELSE LET tx == txs[Len(txs)]
             before == AnalyzeMempool(SubSeq(txs, 1, Len(txs) - 1))
             sandwich ==
                 IF IsDexSwap(tx) /\ tx.detected.success
                      /\ tx.detected.opportunity_score > MinScore
                 THEN <<SandwichOpportunity(tx.detected.opportunity_score,
                                            tx.detected.front_run_amount,
                                            tx.detected.estimated_profit,
                                            tx.detected.total_gas_usd)>>
                 ELSE <<>>
             snipe ==
                 IF IsNewTokenLaunch(tx) /\ config.enable_token_sniping
                 THEN <<SnipeOpportunity>>
                 ELSE <<>>
         IN  before \o sandwich \o snipe

(* ---- ranking ---- *)

(* Array.prototype.sort with (a, b) => b.priority - a.priority: descending, stable *)
InsertByPriority(sorted, o) ==
    LET n == Cardinality({j \in 1..Len(sorted) : sorted[j].priority >= o.priority})
    IN  SubSeq(sorted, 1, n) \o <<o>> \o SubSeq(sorted, n + 1, Len(sorted))

RECURSIVE RankOpportunities(_)
RankOpportunities(opps) ==
    IF opps = <<>> THEN <<>>
    ELSE InsertByPriority(RankOpportunities(SubSeq(opps, 1, Len(opps) - 1)), opps[Len(opps)])

(* ---- capital ---- *)

RECURSIVE SumInvested(_, _)
SumInvested(positions, ids) ==
    IF ids = {} THEN 0
    ELSE LET id == CHOOSE x \in ids : TRUE
         IN  positions[id].sol_invested * SolPriceUsd + SumInvested(positions, ids \ {id})

(* the reduce of _calculate_available_capital *)
AllocatedCapital(positions) == SumInvested(positions, DOMAIN positions)

(* _calculate_available_capital *)
CalculateAvailableCapital == total_balance_usd - AllocatedCapital(active_positions)

(* ---- execution ---- *)

ExecuteSandwichAttack_tracked(opp, clock) ==
    [success |-> TRUE, strategy_type |-> "sandwich_attack",
     component_id |-> [kind |-> "sandwich", at |-> clock],
     estimated_profit |-> opp.estimated_profit,
     capital_used |-> opp.front_run_amount * SolPriceUsd,
     position_tracking |-> [present |-> TRUE, sol_invested |-> opp.front_run_amount]]

(* _execute_sandwich_attack: the result has no position_tracking *)
ExecuteSandwichAttack(opp, clock) ==
    [success |-> TRUE, strategy_type |-> "sandwich_attack",
     component_id |-> [kind |-> "sandwich", at |-> clock],
     estimated_profit |-> opp.estimated_profit,
     capital_used |-> opp.front_run_amount * SolPriceUsd,
     position_tracking |-> NoTracking]

(* _execute_token_snipe *)
ExecuteTokenSnipe(opp, clock) ==
    [success |-> TRUE, strategy_type |-> "token_snipe",
     component_id |-> [kind |-> "snipe", at |-> clock],
     estimated_profit |-> SnipeProfitUsd,
     capital_used |-> SnipeCapitalUsd,
     position_tracking |-> NoTracking]

(* the switch of _execute_strategies *)
ExecuteStrategy(opp, clock) ==
    IF opp.type = "sandwich_attack" THEN ExecuteSandwichAttack(opp, clock)
    ELSE ExecuteTokenSnipe(opp, clock)

(* the capital an opportunity takes when it is dispatched *)
RequiredCapital(opp) == ExecuteStrategy(opp, 0).capital_used

NewStats == [total_executions |-> 0, successful_executions |-> 0, total_profit |-> 0,
             win_rate |-> [num |-> 0, den |-> 1]]

(* _update_strategy_stats *)
UpdateStrategyStats(stats, strategyType, result) ==
    LET old == IF strategyType \in DOMAIN stats THEN stats[strategyType] ELSE NewStats
        won == result.estimated_profit > 0
        total == old.total_executions + 1
        successful == old.successful_executions + (IF won THEN 1 ELSE 0)
        new == [total_executions |-> total,
                successful_executions |-> successful,
                total_profit |-> old.total_profit + (IF won THEN result.estimated_profit ELSE 0),
                win_rate |-> [num |-> successful, den |-> total]]
    IN  [t \in (DOMAIN stats) \cup {strategyType} |-> IF t = strategyType THEN new ELSE stats[t]]

(* `remainingCapital < opp.opportunity.execution_parameters?.front_run_amount` *)
CapitalCheckFails(remainingCapital, opp) == remainingCapital < opp.front_run_amount

(* What the walk of _execute_strategies notes of an opportunity: skipped,   *)
(* dispatched, threw, or abandoned because an earlier one threw.            *)
Visit(opp, remaining, outcome) ==
    [type |-> opp.type, need |-> RequiredCapital(opp), remaining |-> remaining,
     outcome |-> outcome]

(* The ranked opportunities are in non-increasing order of priority *)
RankedByScore(ranked) ==
    \A i, j \in 1..Len(ranked) : i < j => ranked[i].priority >= ranked[j].priority

(* Of two scored opportunities of equal priority, the one with the lower    *)
(* gas-cost estimate is not ranked after the other.                         *)
TiesByGas(ranked) ==
    \A i, j \in 1..Len(ranked) :
        (/\ i < j
         /\ ranked[i].scored
         /\ ranked[j].scored
         /\ ranked[i].priority = ranked[j].priority) => ranked[i].gas_cost <= ranked[j].gas_cost

(* Every ranked opportunity carries a score of the detector above MinScore *)
AllScored(ranked) ==
    \A i \in 1..Len(ranked) : ranked[i].scored /\ ranked[i].priority > MinScore

(* The loop of _execute_strategies from the k-th ranked opportunity on.     *)
(* st: remainingCapital, executionResults, the statistics, whether the loop *)
(* threw, and the walk so far.  Reading opp.opportunity.execution_parameters *)
(* of an opportunity without an `opportunity` field throws a TypeError.      *)
RECURSIVE ExecuteFrom(_, _, _)
ExecuteFrom(ranked, k, st) ==
    IF k > Len(ranked) THEN st
    ELSE LET opp == ranked[k] IN
         IF ~opp.scored
         THEN [st EXCEPT !.thrown = TRUE,
                         !.walk = Append(@, Visit(opp, st.remaining, "threw"))
                                    \o [j \in 1..(Len(ranked) - k) |->
                                           Visit(ranked[k + j], st.remaining, "abandoned")]]
         ELSE IF CapitalCheckFails(st.remaining, opp)
         THEN ExecuteFrom(ranked, k + 1,
                  [st EXCEPT !.walk = Append(@, Visit(opp, st.remaining, "skipped"))])
         ELSE LET result == ExecuteStrategy(opp, cycles)
                  next == [remaining |-> st.remaining - result.capital_used,
                           results |-> Append(st.results, result),
                           stats |-> UpdateStrategyStats(st.stats, opp.type, result),
                           thrown |-> FALSE,
                           walk |-> Append(st.walk, Visit(opp, st.remaining, "dispatched"))]
              IN  IF Len(next.results) >= config.max_concurrent_strategies
                  THEN next
                  ELSE ExecuteFrom(ranked, k + 1, next)

(* _execute_strategies *)
ExecuteStrategies(ranked) ==
    ExecuteFrom(ranked, 1,
        [remaining |-> CalculateAvailableCapital, results |-> <<>>,
         stats |-> strategyStats, thrown |-> FALSE, walk |-> <<>>])

(* ---- portfolio ---- *)

Portfolio ==
    [total_trades |-> total_trades, successful_trades |-> successful_trades,
     daily_pnl |-> daily_pnl, win_rate |-> win_rate, active_positions |-> active_positions]

RecordResult_staleWinRate(pf, result) ==
    LET won == result.estimated_profit > 0
        total == pf.total_trades + 1
        successful == pf.successful_trades + (IF won THEN 1 ELSE 0)
    IN  [total_trades |-> total,
         successful_trades |-> successful,
         daily_pnl |-> pf.daily_pnl + (IF won THEN result.estimated_profit ELSE 0),
         win_rate |-> [num |-> pf.successful_trades, den |-> total],
         active_positions |-> pf.active_positions]

(* the body of the loop of _update_portfolio_performance *)
RecordResult(pf, result) ==
    LET won == result.estimated_profit > 0
        total == pf.total_trades + 1
        successful == pf.successful_trades + (IF won THEN 1 ELSE 0)
    IN  [total_trades |-> total,
         successful_trades |-> successful,
         daily_pnl |-> pf.daily_pnl + (IF won THEN result.estimated_profit ELSE 0),
         win_rate |-> [num |-> successful, den |-> total],
         active_positions |->
             IF result.position_tracking.present
             THEN [id \in (DOMAIN pf.active_positions) \cup {result.component_id} |->
                      IF id = result.component_id
                      THEN [sol_invested |-> result.position_tracking.sol_invested]
                      ELSE pf.active_positions[id]]
             ELSE pf.active_positions]

(* _update_portfolio_performance *)
RECURSIVE UpdatePortfolioPerformance(_, _)
UpdatePortfolioPerformance(pf, results) ==
    IF results = <<>> THEN pf
    ELSE UpdatePortfolioPerformance(RecordResult(pf, Head(results)), Tail(results))

SumCapitalUsed(results) ==
    LET RECURSIVE Sum(_)
        Sum(k) == IF k = 0 THEN 0 ELSE results[k].capital_used + Sum(k - 1)
    IN  Sum(Len(results))

(* Some opportunity of the walk was not skipped although it takes more     *)
(* capital than remained when the walk came to it.                          *)
Overdrawn(walk) ==
    \E k \in 1..Len(walk) :
        walk[k].outcome # "skipped" /\ walk[k].need > walk[k].remaining

(* Some opportunity of the walk fitted the remaining capital and was not    *)
(* dispatched (the walk stopping at max_concurrent_strategies apart).       *)
PassedOver(walk) ==
    \E k \in 1..Len(walk) :
        walk[k].outcome # "dispatched" /\ walk[k].need <= walk[k].remaining

(* The component_id of every result of the cycle *)
ComponentIds(results) == {results[k].component_id : k \in 1..Len(results)}

(* The type of the opportunity at which the walk threw, if it did *)
ThrewAt(walk) ==
    IF \E k \in 1..Len(walk) : walk[k].outcome = "threw"
    THEN (CHOOSE v \in {walk[k] : k \in 1..Len(walk)} : v.outcome = "threw").type
    ELSE "none"

(* _monitor_active_positions: it walks the positions and changes none *)
MonitorActivePositions(positions) == positions

(* ---- the cycle ---- *)

(* orchestrate_mev_strategies from its ranking step on, for the opportunities *)
(* the analysis produced; an exception anywhere is caught and reported as     *)
(* orchestration_failure.                                                     *)
RunCycle(entry, analyzed, recognised, opportunities) ==
    \E ranked \in {RankOpportunities(opportunities)} :
    \E ex \in {ExecuteStrategies(ranked)} :
    \E pf \in {UpdatePortfolioPerformance(Portfolio, ex.results)} :
        /\ cycles' = cycles + 1
        /\ strategyStats' = ex.stats
        /\ lastCycle' = [entry |-> entry,
                         result |-> IF ex.thrown THEN "orchestration_failure" ELSE "success",
                         analyzed |-> analyzed,
                         executed |-> Len(ex.results),
                         available |-> CalculateAvailableCapital,
                         used |-> SumCapitalUsed(ex.results),
                         overdrawn |-> Overdrawn(ex.walk),
                         passed_over |-> PassedOver(ex.walk),
                         dispatched |-> ComponentIds(ex.results),
                         threw |-> ThrewAt(ex.walk),
                         ranked_by_score |-> RankedByScore(ranked),
                         ties_by_gas |-> TiesByGas(ranked),
                         all_scored |-> AllScored(ranked),
                         routers_recognised |-> recognised]
        /\ IF ex.thrown
           THEN UNCHANGED <<total_trades, successful_trades, daily_pnl, win_rate,
                            active_positions>>
           ELSE /\ total_trades' = pf.total_trades
                /\ successful_trades' = pf.successful_trades
                /\ daily_pnl' = pf.daily_pnl
                /\ win_rate' = pf.win_rate
                /\ active_positions' = MonitorActivePositions(pf.active_positions)
        /\ UNCHANGED <<isActive, config, total_balance_usd>>

MgrConstructed ==
    /\ isActive = FALSE
    /\ daily_pnl = 0
    /\ total_trades = 0
    /\ successful_trades = 0
    /\ win_rate = [num |-> 0, den |-> 1]
    /\ strategyStats = NoStats
    /\ cycles = 0
    /\ lastCycle = NoCycle

(* start() *)
Start ==
    /\ isActive' = TRUE
    /\ UNCHANGED <<config, total_balance_usd, active_positions, daily_pnl, total_trades,
                   successful_trades, win_rate, strategyStats, cycles, lastCycle>>

Stop_resetsStats ==
    /\ isActive' = FALSE
    /\ strategyStats' = NoStats
    /\ UNCHANGED <<config, total_balance_usd, active_positions, daily_pnl, total_trades,
                   successful_trades, win_rate, cycles, lastCycle>>

(* stop() *)
Stop ==
    /\ isActive' = FALSE
    /\ UNCHANGED <<config, total_balance_usd, active_positions, daily_pnl, total_trades,
                   successful_trades, win_rate, strategyStats, cycles, lastCycle>>

ManagerInactive_ignored == FALSE

(* if (!this.isActive) *)
ManagerInactive == ~isActive

(* orchestrate_mev_strategies(mempoolStream, marketConditions) *)
OrchestrateMevStrategies(txs) ==
    /\ cycles < MaxCycles
    /\ IF ManagerInactive
       THEN /\ cycles' = cycles + 1
            /\ lastCycle' = [NoCycle EXCEPT !.entry = "transactions",
                                            !.result = "manager_inactive"]
            /\ UNCHANGED <<isActive, config, total_balance_usd, active_positions, daily_pnl,
                           total_trades, successful_trades, win_rate, strategyStats>>
       ELSE RunCycle("transactions", Len(txs), RoutersRecognised(txs), AnalyzeMempool(txs))

(* The cycle of a started manager on a batch of scored opportunities, as the *)
(* analysis hands it to the ranking step.                                    *)
DispatchOpportunities(opps) ==
    /\ cycles < MaxCycles
    /\ isActive
    /\ RunCycle("opportunities", Len(opps), TRUE, opps)

----------------------------------------------------------------------------
(* SandwichDetector (src/lib/components/sandwich_detector.js) *)

(* ---- JavaScript numbers ---- *)

(* A number is the ratio n / d in lowest terms with d > 0; d = 0 stands for *)
(* the values that are no ratio: Infinity (n = 1), -Infinity (n = -1) and  *)
(* NaN (n = 0).  Rounding is not modelled: finite results are exact.        *)
Ratio(n, d) == [n |-> n, d |-> d]

Abs(x) == IF x < 0 THEN -x ELSE x

Sign(x) == IF x > 0 THEN 1 ELSE IF x < 0 THEN -1 ELSE 0

RECURSIVE Gcd(_, _)
Gcd(a, b) == IF b = 0 THEN a ELSE Gcd(b, a % b)

Normalize(n, d) ==
    IF d = 0 THEN Ratio(Sign(n), 0)
    ELSE LET g == Gcd(Abs(n), Abs(d))
         IN  Ratio(Sign(d) * (n \div g), Abs(d) \div g)

Num(k) == Ratio(k, 1)

NaN == Ratio(0, 0)

Infinity == Ratio(1, 0)

IsNaN(a) == a.d = 0 /\ a.n = 0

IsFinite(a) == a.d > 0

Neg(a) == Ratio(-a.n, a.d)

(* a * b: 0 * Infinity is NaN *)
Mul(a, b) == Normalize(a.n * b.n, a.d * b.d)

(* 1 / b: 1 / 0 is Infinity *)
Recip(b) ==
    IF b.n = 0 THEN (IF b.d = 0 THEN NaN ELSE Infinity)
    ELSE Ratio(Sign(b.n) * b.d, Abs(b.n))

(* a / b: x / 0 is an infinity, 0 / 0 is NaN *)
Div(a, b) == Mul(a, Recip(b))

(* a + b: Infinity + -Infinity is NaN *)
Add(a, b) ==
    IF IsNaN(a) \/ IsNaN(b) THEN NaN
    ELSE IF ~IsFinite(a) /\ ~IsFinite(b) THEN (IF a.n = b.n THEN a ELSE NaN)
    ELSE IF ~IsFinite(a) THEN a
    ELSE IF ~IsFinite(b) THEN b
    ELSE Normalize(a.n * b.d + b.n * a.d, a.d * b.d)

Sub(a, b) == Add(a, Neg(b))

(* a < b: false when either is NaN *)
Lt(a, b) ==
    /\ ~IsNaN(a)
    /\ ~IsNaN(b)
    /\ IF ~IsFinite(a) THEN a.n = -1 /\ b # a
       ELSE IF ~IsFinite(b) THEN b.n = 1
       ELSE a.n * b.d < b.n * a.d

Gt(a, b) == Lt(b, a)

(* a >= b and a <= b: false when either is NaN *)
Ge(a, b) == ~IsNaN(a) /\ ~IsNaN(b) /\ ~Lt(a, b)

Le(a, b) == Ge(b, a)

(* Math.min and Math.max: NaN when either argument is NaN *)
MathMin(a, b) == IF IsNaN(a) \/ IsNaN(b) THEN NaN ELSE IF Lt(b, a) THEN b ELSE a

MathMax(a, b) == IF IsNaN(a) \/ IsNaN(b) THEN NaN ELSE IF Lt(a, b) THEN b ELSE a

(* ---- JavaScript values of the fields read by the detector ---- *)

(* A field holds a number, a BigInt (as the amounts of an ethers transaction *)
(* are) or is missing (undefined)                                            *)
Undefined == [defined |-> FALSE, num |-> NaN, bigint |-> FALSE]

Value(k) == [defined |-> TRUE, num |-> Num(k), bigint |-> FALSE]

BigInt(k) == [defined |-> TRUE, num |-> Num(k), bigint |-> TRUE]

(* The number a field gives in arithmetic and comparisons: undefined gives NaN *)
ToNumber(x) == IF x.defined THEN x.num ELSE NaN

(* `!x` is false: undefined, 0, 0n and NaN are falsy *)
Truthy(x) == x.defined /\ ~IsNaN(x.num) /\ x.num.n # 0

(* ---- bounds and inputs of the detector model ---- *)

MaxAmount == 3          \* trade amount, in fifties
MaxGasPrice == 2        \* gas price, in twenties of gwei
MaxClock == 2           \* Date.now(), in milliseconds since the first call

(* Constants of the code.  Gas prices are counted in gwei, so that the 1e18 *)
(* wei per ETH of the code is 1e9 gwei per ETH here.                        *)
MinLiquidityUsd == 5000         \* total_liquidity_usd < 5000
FeeNumerator == 997             \* tradeAmount * 997
FeeDenominator == 1000          \* reserveIn * 1000
BaseGasLimit == 200000          \* baseGasLimit
GweiPerEth == 1000000000        \* / 1e18, with prices in gwei
MinPositionUsd == 1000          \* Math.max(profitablePosition, 1000)
ProfitPoints == 40              \* Math.min(40, ...)
ImpactPoints == 30              \* Math.min(30, priceImpact ...)
GasPoints == 30                 \* Math.min(30, gasEfficiency ...)
MaxScore == 100                 \* Math.min(100, ...)

(* pendingTransaction: whether the argument is given, whether it has a `to`, *)
(* its `value` and its `amount`.                                            *)
Transaction(present, to, value, amount) ==
    [present |-> present, to |-> to, value |-> value, amount |-> amount]

(* gasPriceContext *)
GasContext(present, current_price, eth_price_usd) ==
    [present |-> present, current_price |-> current_price, eth_price_usd |-> eth_price_usd]

(* liquidityPoolState.reserves *)
Reserves(present, token0, token1) ==
    [present |-> present, token0 |-> token0, token1 |-> token1]

(* liquidityPoolState *)
PoolState(present, reserves, total_liquidity_usd, eth_price_usd) ==
    [present |-> present, reserves |-> reserves,
     total_liquidity_usd |-> total_liquidity_usd, eth_price_usd |-> eth_price_usd]

NoTransaction == Transaction(FALSE, FALSE, Undefined, Undefined)

NoGasContext == GasContext(FALSE, Undefined, Undefined)

NoReserves == Reserves(FALSE, Undefined, Undefined)

NoPoolState == PoolState(FALSE, NoReserves, Undefined, Undefined)

Amounts == {Undefined, Value(10), BigInt(50)} \cup {Value(50 * k) : k \in -1..MaxAmount}

TxValues == {Undefined, Value(0), Value(-1), Value(1)}

GasPrices == {Undefined, BigInt(20)} \cup {Value(20 * k) : k \in -1..MaxGasPrice}

EthPrices == {Undefined, Value(0), Value(2000)}

Liquidities ==
    {Undefined, Value(MinLiquidityUsd - 1000), Value(MinLiquidityUsd - 1),
     Value(MinLiquidityUsd), Value(20 * MinLiquidityUsd)}

PendingTransactions ==
    {NoTransaction} \cup
    {Transaction(TRUE, to, v, a) : to \in BOOLEAN, v \in TxValues, a \in Amounts}

GasContexts ==
    {NoGasContext} \cup {GasContext(TRUE, p, e) : p \in GasPrices, e \in EthPrices}

PoolStates ==
    {NoPoolState} \cup
    {PoolState(TRUE, r, l, Value(2000)) :
        r \in {NoReserves, Reserves(TRUE, Value(0), Value(1000)),
               Reserves(TRUE, Value(1000), Value(1000))},
        l \in Liquidities}

Request(tx, gas, pool) == [tx |-> tx, gas |-> gas, pool |-> pool]

Requests == {Request(t, g, p) : t \in PendingTransactions, g \in GasContexts, p \in PoolStates}

(* No call has been made: there are no arguments and nothing was returned *)
NoRequest == <<>>

NoReturn == <<>>

(* ---- the detector ---- *)

(* !poolState || !poolState.reserves || poolState.total_liquidity_usd < 5000 *)
ValidateLiquidity(poolState) ==
    \/ ~poolState.present
    \/ ~poolState.reserves.present
    \/ Lt(ToNumber(poolState.total_liquidity_usd), Num(MinLiquidityUsd))

(* _validate_inputs: the error type, or "valid" *)
ValidateInputs(transaction, gasContext, poolState) ==
    IF ~transaction.present \/ ~transaction.to \/ ~Truthy(transaction.value)
    THEN "invalid_transaction_format"
    ELSE IF ~gasContext.present \/ ~Truthy(gasContext.current_price)
    THEN "invalid_gas_context"
    ELSE IF ValidateLiquidity(poolState)
    THEN "insufficient_pool_liquidity"
    ELSE "valid"

(* _calculate_price_impact *)
CalculatePriceImpact(tradeAmount, poolReserves) ==
    LET reserveIn == ToNumber(poolReserves.token0)
        reserveOut == ToNumber(poolReserves.token1)
        amountInWithFee == Mul(tradeAmount, Num(FeeNumerator))
        numerator == Mul(amountInWithFee, reserveOut)
        denominator == Add(Mul(reserveIn, Num(FeeDenominator)), amountInWithFee)
        priceImpactPercent == Mul(Div(tradeAmount, reserveIn), Num(100))
    IN  [price_impact_percent |-> priceImpactPercent,
         amount_out |-> Div(numerator, denominator),
         risk_level |-> IF Gt(priceImpactPercent, Num(5)) THEN "high"
                        ELSE IF Gt(priceImpactPercent, Num(1)) THEN "medium"
                        ELSE "low"]

(* _estimate_gas_costs *)
EstimateGasCosts(gasContext) ==
    LET priorityGasMultiplier == Ratio(3, 2)
        current_price == ToNumber(gasContext.current_price)
        frontRunGasCost == Mul(Mul(Num(BaseGasLimit), current_price), priorityGasMultiplier)
        backRunGasCost == Mul(Num(BaseGasLimit), current_price)
    IN  [front_run_gas_eth |-> Div(frontRunGasCost, Num(GweiPerEth)),
         back_run_gas_eth |-> Div(backRunGasCost, Num(GweiPerEth)),
         total_gas_usd |-> Mul(Div(Add(frontRunGasCost, backRunGasCost), Num(GweiPerEth)),
                               ToNumber(gasContext.eth_price_usd))]

(* _optimize_position_size *)
OptimizePositionSize(gasCosts, poolState) ==
    LET maxPosition == Mul(ToNumber(poolState.total_liquidity_usd), Ratio(1, 10))
        profitablePosition == Mul(gasCosts.total_gas_usd, Num(10))
        optimalSize == MathMin(maxPosition, MathMax(profitablePosition, Num(MinPositionUsd)))
    IN  [front_run_eth |-> Div(optimalSize, ToNumber(poolState.eth_price_usd)),
         back_run_eth |-> Div(optimalSize, ToNumber(poolState.eth_price_usd)),
         position_size_usd |-> optimalSize]

CalculateProfit_ignoresGas(priceImpact, position, gasCosts) ==
    LET grossProfit == Mul(position.position_size_usd,
                           Div(priceImpact.price_impact_percent, Num(100)))
    IN  [gross_profit_usd |-> grossProfit, net_profit_usd |-> grossProfit]

(* _calculate_profit *)
CalculateProfit(priceImpact, position, gasCosts) ==
    LET grossProfit == Mul(position.position_size_usd,
                           Div(priceImpact.price_impact_percent, Num(100)))
        netProfit == Sub(grossProfit, gasCosts.total_gas_usd)
    IN  [gross_profit_usd |-> grossProfit, net_profit_usd |-> netProfit]

(* _calculate_opportunity_score *)
CalculateOpportunityScore(profit, priceImpact, gasCosts) ==
    LET profitPart == MathMin(Num(ProfitPoints), Div(profit.net_profit_usd, Num(10)))
        impactPart == MathMin(Num(ImpactPoints), Mul(priceImpact.price_impact_percent, Num(6)))
        gasEfficiency == Div(profit.net_profit_usd, gasCosts.total_gas_usd)
        gasPart == MathMin(Num(GasPoints), Mul(gasEfficiency, Num(3)))
        score == Add(Add(Add(Num(0), profitPart), impactPart), gasPart)
    IN  MathMin(Num(MaxScore), MathMax(Num(0), score))

(* What detect_sandwich_opportunity returns, with the values it computed on *)
(* the way.  stamp is the Date.now() of component_id, -1 where the          *)
(* component_id holds none.                                                 *)
NoResponse ==
    [kind |-> "none", error |-> "none", opportunity_score |-> NaN, estimated_profit |-> NaN,
     front_run_amount |-> NaN, price_impact_risk |-> "none", trade_amount |-> NaN,
     price_impact_percent |-> NaN, total_gas_usd |-> NaN, position_size_usd |-> NaN,
     gross_profit_usd |-> NaN, stamp |-> -1, execution_time_ms |-> -1]

ErrorResponse(errorType) == [NoResponse EXCEPT !.kind = "error", !.error = errorType]

(* `tradeAmount * 997` and `baseGasLimit * gasContext.current_price` throw a *)
(* TypeError when the operand is a BigInt                                   *)
MixesBigInt(req) == req.tx.amount.bigint \/ req.gas.current_price.bigint

Catch_rethrows(thrown) == [NoResponse EXCEPT !.kind = "thrown", !.error = thrown]

(* catch (error): the error becomes the return value *)
Catch(thrown) == ErrorResponse("execution_failure")

DetectSandwichOpportunity_timed(req, startedAt, returnedAt) ==
    [ErrorResponse(ValidateInputs(req.tx, req.gas, req.pool))
        EXCEPT !.opportunity_score = Num(returnedAt)]

(* detect_sandwich_opportunity, called at startedAt and returning at returnedAt *)
DetectSandwichOpportunity(req, startedAt, returnedAt) ==
    LET validation == ValidateInputs(req.tx, req.gas, req.pool) IN
    IF validation # "valid" THEN ErrorResponse(validation)
    ELSE IF MixesBigInt(req) THEN Catch("TypeError")
    ELSE LET tradeAmount == ToNumber(req.tx.amount)
             priceImpact == CalculatePriceImpact(tradeAmount, req.pool.reserves)
             gasCosts == EstimateGasCosts(req.gas)
             optimalPosition == OptimizePositionSize(gasCosts, req.pool)
             profitEstimation == CalculateProfit(priceImpact, optimalPosition, gasCosts)
             opportunityScore == CalculateOpportunityScore(profitEstimation, priceImpact, gasCosts)
         IN  [kind |-> "success", error |-> "none",
              opportunity_score |-> opportunityScore,
              estimated_profit |-> profitEstimation.net_profit_usd,
              front_run_amount |-> optimalPosition.front_run_eth,
              price_impact_risk |-> priceImpact.risk_level,
              trade_amount |-> tradeAmount,
              price_impact_percent |-> priceImpact.price_impact_percent,
              total_gas_usd |-> gasCosts.total_gas_usd,
              position_size_usd |-> optimalPosition.position_size_usd,
              gross_profit_usd |-> profitEstimation.gross_profit_usd,
              stamp |-> returnedAt,
              execution_time_ms |-> returnedAt - startedAt]

Admits_unscored(resp) == resp.kind = "success"

(* `sandwichOpp.success && sandwichOpp.opportunity_score > 50` of the       *)
(* manager's _analyze_mempool_transactions                                  *)
Admits(resp) == resp.kind = "success" /\ Gt(resp.opportunity_score, Num(MinScore))

(* Before any call of the detector *)
ScorerIdle ==
    /\ request = NoRequest
    /\ response = NoReturn
    /\ previous = NoReturn
    /\ detectorClock = 0

(* A call of SandwichDetector.detect_sandwich_opportunity returns: the first *)
(* call, or a second one on the same arguments at a later time.  previous   *)
(* keeps what the first call returned.                                      *)
Detect ==
    /\ previous = NoResponse
    /\ \E startedAt \in detectorClock..MaxClock : \E returnedAt \in startedAt..MaxClock :
          /\ response' = DetectSandwichOpportunity(request, startedAt, returnedAt)
          /\ detectorClock' = returnedAt
    /\ previous' = response
    /\ UNCHANGED request

----------------------------------------------------------------------------
(* TokenSniper (src/unnamed/part_002) *)

MaxVolatility == 3          \* estimated volatility, in quarters
MaxWinRatio == 2            \* average win ratio

MinSecurityScore == 75      \* securityScore >= 75

(* `x || d`: the field when it is truthy, the default otherwise *)
OrDefault(x, d) == IF Truthy(x) THEN ToNumber(x) ELSE d

(* tokenLaunchEvent.token_contract, as the four checks of the security      *)
(* scanner report on it.  The checks of the code are placeholders for the   *)
(* scanner; what the scanner answers is an input here.                      *)
SecurityChecks ==
    [contract_verified : BOOLEAN, no_mint_authority : BOOLEAN,
     reasonable_supply : BOOLEAN, liquidity_locked : BOOLEAN]

(* Object.values(securityChecks).filter(Boolean).length *)
PassedChecks(securityChecks) ==
    Cardinality({k \in DOMAIN securityChecks : securityChecks[k]})

ValidateTokenSecurity_strict(securityChecks) ==
    LET totalChecks == Cardinality(DOMAIN securityChecks)
        securityScore == Mul(Div(Num(PassedChecks(securityChecks)), Num(totalChecks)), Num(100))
    IN  [passed |-> Gt(securityScore, Num(MinSecurityScore)), score |-> securityScore]

(* _validate_token_security *)
ValidateTokenSecurity(securityChecks) ==
    LET totalChecks == Cardinality(DOMAIN securityChecks)
        securityScore == Mul(Div(Num(PassedChecks(securityChecks)), Num(totalChecks)), Num(100))
    IN  [passed |-> Ge(securityScore, Num(MinSecurityScore)), score |-> securityScore]

(* tokenLaunchEvent *)
LaunchEvents ==
    [token_mint : {"missing", "invalid", "valid"},
     token_contract : SecurityChecks,
     estimated_volatility : {Undefined} \cup {[Value(0) EXCEPT !.num = Normalize(k, 4)] : k \in 0..MaxVolatility}]

(* snipeParameters *)
SnipeParameters ==
    [position_size_sol : {Value(1)},
     max_slippage : {[Value(0) EXCEPT !.num = Ratio(1, 10)], Value(1)},
     expected_win_rate : {Undefined, [Value(0) EXCEPT !.num = Ratio(1, 5)], Value(1)},
     avg_win_ratio : {Undefined} \cup {Value(k) : k \in 1..MaxWinRatio},
     max_position_percent : {Undefined, [Value(0) EXCEPT !.num = Ratio(1, 2)],
                             [Value(0) EXCEPT !.num = Ratio(-1, 10)]}]

(* walletContext *)
WalletContexts == [available_sol_balance : {Value(1), Value(10)}]

SnipeRequests == [event : LaunchEvents, params : SnipeParameters, wallet : WalletContexts]

(* _validate_launch_event: the error type, or "valid" *)
ValidateLaunchEvent(event, params, wallet) ==
    LET requiredSOL == Add(ToNumber(params.position_size_sol), Ratio(1, 100)) IN
    IF event.token_mint # "valid" THEN "invalid_token_mint"
    ELSE IF Lt(ToNumber(wallet.available_sol_balance), requiredSOL)
    THEN "insufficient_sol_balance"
    ELSE IF Gt(ToNumber(params.max_slippage), Ratio(1, 2))
    THEN "excessive_slippage_tolerance"
    ELSE "valid"

(* _calculate_kelly_fraction *)
CalculateKellyFraction(winRate, avgWinRatio, volatility) ==
    LET b == avgWinRatio
        p == winRate
        q == Sub(Num(1), winRate)
        kellyFraction == Div(Sub(Mul(b, p), q), b)
        volatilityAdjustment == Sub(Num(1), MathMin(Ratio(1, 2), volatility))
    IN  MathMax(Num(0), MathMin(Ratio(1, 4), Mul(kellyFraction, volatilityAdjustment)))

(* _calculate_position_size *)
CalculatePositionSize(params, availableBalance, estimatedVolatility) ==
    LET kellyCriterion ==
            CalculateKellyFraction(OrDefault(params.expected_win_rate, Ratio(3, 5)),
                                   OrDefault(params.avg_win_ratio, Num(2)),
                                   estimatedVolatility)
        maxPositionPercent ==
            MathMin(OrDefault(params.max_position_percent, Ratio(1, 10)), kellyCriterion)
    IN  [sol_amount |-> Mul(availableBalance, maxPositionPercent),
         position_percent |-> maxPositionPercent,
         kelly_fraction |-> kellyCriterion]

(* What snipe_token_launch returns, and whether it sized a position and     *)
(* executed the swap on the way.                                            *)
NoSnipeResult ==
    [kind |-> "none", error |-> "none", sized |-> FALSE, swapped |-> FALSE,
     sol_amount |-> NaN, kelly_fraction |-> NaN, security_score |-> NaN]

SnipeError(errorType) == [NoSnipeResult EXCEPT !.kind = "error", !.error = errorType]

(* snipe_token_launch *)
SnipeTokenLaunch(req) ==
    LET validation == ValidateLaunchEvent(req.event, req.params, req.wallet)
        securityCheck == ValidateTokenSecurity(req.event.token_contract)
        optimalPosition ==
            CalculatePositionSize(req.params, ToNumber(req.wallet.available_sol_balance),
                                  ToNumber(req.event.estimated_volatility))
    IN  IF validation # "valid" THEN SnipeError(validation)
        ELSE IF ~securityCheck.passed THEN SnipeError("security_check_failed")
        ELSE [kind |-> "success", error |-> "none", sized |-> TRUE, swapped |-> TRUE,
              sol_amount |-> optimalPosition.sol_amount,
              kelly_fraction |-> optimalPosition.kelly_fraction,
              security_score |-> securityCheck.score]

(* A call of TokenSniper.snipe_token_launch returns *)
Snipe ==
    /\ response = NoSnipeResult
    /\ response' = SnipeTokenLaunch(request)
    /\ UNCHANGED <<request, previous, detectorClock>>

----------------------------------------------------------------------------
(* SolanaSniper: the polling loops that discover tokens and snipe them *)

(* The entries of monitoredTokens: the key executeSnipe builds from the     *)
(* mint or address and the platform, and the bare address monitorJupiter    *)
(* adds for every token it has seen.                                        *)
TokenKey(id, platform) == [id |-> id, platform |-> platform]

RawAddress(id) == [id |-> id, platform |-> "none"]

(* A token of a Jupiter response; snipeable is what shouldSnipeToken        *)
(* returns on its fields.                                                   *)
ListedTokens == [id : 1..MaxTokens, snipeable : BOOLEAN]

(* The responses of one Jupiter poll: lists of distinct tokens *)
Listings ==
    {l \in SeqsUpTo(ListedTokens, MaxListed) :
        \A i, j \in 1..Len(l) : l[i].id = l[j].id => i = j}

(* The coins of one Pump.fun response that shouldSnipeToken accepts, in the *)
(* order of the response: a coin it rejects is passed over at no await.     *)
SnipeableCoins ==
    {l \in SeqsUpTo(1..MaxTokens, MaxListed) :
        \A i, j \in 1..Len(l) : l[i] = l[j] => i = j}

(* Without the guard every call of executeSnipe goes on to buy *)
AlreadySniped_never(monitored, key) == FALSE

(* The duplicate guard of executeSnipe *)
AlreadySniped(monitored, key) == key \in monitored

(* The SolanaSniper as constructed *)
BotConstructed ==
    [isRunning |-> FALSE,
     timers |-> FALSE,          \* the intervals of the two polling loops are registered
     monitoredTokens |-> {},
     pumpPolls |-> EmptyBag,    \* monitorPumpFun callbacks awaiting a buy
     jupiterSnipes |-> {},      \* executeSnipe calls monitorJupiter did not await
     attempts |-> EmptyBag,     \* history: the keys that passed the guard, each time
     stopped |-> FALSE,         \* history: stop() was called
     afterStop |-> 0,           \* history: guards passed after stop()
     turnedAway |-> FALSE]      \* history: the guard stopped a call whose key was being bought

NoBot == <<>>

BotIdle == bot = NoBot

(* The synchronous head of executeSnipe: the guard, and the add that        *)
(* follows it before the first await.                                       *)
ExecuteSnipe(b, key) ==
    LET awaited == \/ key \in b.jupiterSnipes
                   \/ \E c \in BagToSet(b.pumpPolls) : c.awaiting = key
    IN  IF AlreadySniped(b.monitoredTokens, key)
        THEN [b EXCEPT !.turnedAway = @ \/ awaited]
        ELSE [b EXCEPT !.monitoredTokens = @ \cup {key},
                       !.attempts = @ (+) SetToBag({key}),
                       !.afterStop = IF b.stopped THEN @ + 1 ELSE @]

(* startTokenMonitoring, called once by initialize *)
StartTokenMonitoring ==
    /\ ~bot.timers
    /\ bot' = [bot EXCEPT !.isRunning = TRUE, !.timers = TRUE]
    /\ UNCHANGED monVars

(* The for loop of a monitorPumpFun callback, from the coin it has reached  *)
(* to the first buy it has to wait for. The await of an executeSnipe that   *)
(* returned at its guard resumes in the same turn of the event loop, before *)
(* any timer or response: the loop stops only at a buy, or at the end of    *)
(* the list.                                                                *)
RECURSIVE PumpFunLoop(_, _)
PumpFunLoop(b, rest) ==
    IF rest = <<>> THEN b
    ELSE LET key == TokenKey(Head(rest), "pump.fun")
         IN  IF AlreadySniped(b.monitoredTokens, key)
             THEN PumpFunLoop(ExecuteSnipe(b, key), Tail(rest))
             ELSE [ExecuteSnipe(b, key) EXCEPT
                      !.pumpPolls = @ (+) SetToBag({[rest |-> Tail(rest),
                                                     awaiting |-> key]})]

(* The interval of monitorPumpFun fires and the coins request resolves; a   *)
(* request that fails is a callback with nothing to do.                     *)
PumpFunPoll(coins) ==
    /\ bot.timers
    /\ BagCardinality(bot.pumpPolls) < MaxInFlight
    /\ bot' = PumpFunLoop(bot, coins)
    /\ UNCHANGED monVars

(* When the buy returned a txid, setupAutoSell starts the exit monitor of   *)
(* the position (the model follows the monitor of the first position        *)
(* bought).                                                                 *)
Bought(bought) ==
    IF bought /\ mstate = "unstarted" THEN MonitorForSell ELSE UNCHANGED monVars

(* The buy a monitorPumpFun callback awaits settles, and its loop goes on *)
PumpFunSettles(c, bought) ==
    /\ bot' = PumpFunLoop([bot EXCEPT !.pumpPolls = @ (-) SetToBag({c})], c.rest)
    /\ Bought(bought)

(* tokens.forEach of a monitorJupiter callback: executeSnipe is not awaited, *)
(* so the whole list is walked in one turn.                                 *)
RECURSIVE JupiterEach(_, _)
JupiterEach(b, listing) ==
    IF listing = <<>> THEN b
    ELSE LET token == Head(listing)
             key == TokenKey(token.id, "jupiter")
             seen == [b EXCEPT !.monitoredTokens = @ \cup {RawAddress(token.id)}]
             buying == token.snipeable /\ ~AlreadySniped(seen.monitoredTokens, key)
             sniped == IF token.snipeable THEN ExecuteSnipe(seen, key) ELSE seen
             after == IF buying
                      THEN [sniped EXCEPT !.jupiterSnipes = @ \cup {key}]
                      ELSE sniped
         IN  IF RawAddress(token.id) \in b.monitoredTokens
             THEN JupiterEach(b, Tail(listing))
             ELSE JupiterEach(after, Tail(listing))

(* The interval of monitorJupiter fires and the token list resolves *)
JupiterPoll(listing) ==
    /\ bot.timers
    /\ bot' = JupiterEach(bot, listing)
    /\ UNCHANGED monVars

(* A buy monitorJupiter started settles *)
JupiterSettles(key, bought) ==
    /\ key \in bot.jupiterSnipes
    /\ bot' = [bot EXCEPT !.jupiterSnipes = @ \ {key}]
    /\ Bought(bought)

(* stop() *)
StopSniper ==
    /\ bot.isRunning
    /\ bot' = [bot EXCEPT !.isRunning = FALSE, !.stopped = TRUE]
    /\ UNCHANGED monVars

----------------------------------------------------------------------------
(* NodeManager: the health of the nodes *)

(* The chains whose nodes initialize() registers with status 'active': the  *)
(* Ethereum node with last_block 0, a layer 2 node without a last_block.    *)
Chains == {"ethereum", "arbitrum"}

NodeRegistered(chain) ==
    [status |-> "active",
     last_block |-> IF chain = "ethereum" THEN Value(0) ELSE Undefined]

(* The manager once initialize() has started the health monitoring, and    *)
(* the nodes as they really are: whether each answers, and its block.      *)
NodesInitialized ==
    [node |-> [chain \in Chains |-> NodeRegistered(chain)],
     pending |-> [chain \in Chains |-> 0],        \* getBlockNumber calls in flight
     active_nodes |-> {},                         \* of the last metrics_update
     responding |-> [chain \in Chains |-> TRUE],
     height |-> [chain \in Chains |-> 0]]

NoNodes == <<>>

NodesIdle == nodes = NoNodes

(* checkNodeHealth asks the nodes it has to ask *)
Checked(n) == {chain \in Chains : n.node[chain].status = "active"}

(* The interval of startHealthMonitoring fires: checkNodeHealth sends its   *)
(* requests, then updateMetrics reports the nodes that are healthy now.     *)
HealthCheck ==
    /\ \A chain \in Checked(nodes) : nodes.pending[chain] < MaxInFlight
    /\ nodes' = [nodes EXCEPT
          !.pending = [chain \in Chains |->
                          IF chain \in Checked(nodes) THEN @[chain] + 1 ELSE @[chain]],
          !.active_nodes = {chain \in Chains : nodes.node[chain].status = "healthy"}]

(* getBlockNumber of a node that answers resolves with its block number *)
BlockNumberResolves(chain) ==
    /\ nodes.pending[chain] > 0
    /\ nodes.responding[chain]
    /\ LET blockNumber == nodes.height[chain]
           newer == Gt(Num(blockNumber), ToNumber(nodes.node[chain].last_block))
       IN  nodes' = [nodes EXCEPT
              !.pending[chain] = @ - 1,
              !.node[chain] = IF newer
                              THEN [status |-> "healthy", last_block |-> Value(blockNumber)]
                              ELSE @]

(* getBlockNumber of a node that does not answer rejects *)
BlockNumberRejects(chain) ==
    /\ nodes.pending[chain] > 0
    /\ ~nodes.responding[chain]
    /\ nodes' = [nodes EXCEPT !.pending[chain] = @ - 1,
                              !.node[chain].status = "error"]

(* The nodes themselves: one stops answering, answers again, or sees a new  *)
(* block.                                                                   *)
NodeFails(chain) ==
    /\ nodes.responding[chain]
    /\ nodes' = [nodes EXCEPT !.responding[chain] = FALSE]

NodeRecovers(chain) ==
    /\ ~nodes.responding[chain]
    /\ nodes' = [nodes EXCEPT !.responding[chain] = TRUE]

NewBlock(chain) ==
    /\ nodes.height[chain] < MaxBlock
    /\ nodes' = [nodes EXCEPT !.height[chain] = @ + 1]

----------------------------------------------------------------------------
(* TokenDiscoveryEngine: batches of discovered tokens and their alerts *)

(* A token of a Pump.fun batch: gem is what isPumpFunGem returns on it, the *)
(* other fields are those of the tokenInfo built from it.                   *)
BatchTokens ==
    [id : 1..MaxDiscovered, gem : BOOLEAN, potentialScore : {40, 80},
     risk : {50}, volume24h : {0}, marketCap : {0}]

(* The batches: lists of distinct tokens *)
Batches ==
    {l \in SeqsUpTo(BatchTokens, MaxBatch) :
        \A i, j \in 1..Len(l) : l[i].id = l[j].id => i = j}

(* The key of addDiscoveredToken *)
DiscoveryKey(tokenInfo) == TokenKey(tokenInfo.id, "pump.fun")

ShouldAlert(tokenInfo) ==
    \/ tokenInfo.potentialScore > 70
    \/ (tokenInfo.potentialScore > 50 /\ tokenInfo.risk < 60)
    \/ (tokenInfo.volume24h > 100000 /\ tokenInfo.marketCap < 500000)

(* The engine as constructed. this.onTokenDiscovered and this.onAlert read  *)
(* the methods of the same names until something is assigned to them: a     *)
(* callback by a registration, or whatever else the method is called with.  *)
DiscoveryConstructed ==
    [discoveredTokens |-> {},
     onTokenDiscovered |-> "method",
     onAlert |-> "method",
     alerted |-> {},            \* history: the keys sendAlert raised an alert for
     threw |-> FALSE,           \* history: the last batch ended in an exception
     recordedAll |-> TRUE,      \* history: the last batch recorded all its gems
     alertedAll |-> TRUE]       \* history: ... and alerted all its new alertable gems

NoDiscovery == <<>>

DiscoveryIdle == discovery = NoDiscovery

(* `if (this.f) this.f(x)`: a registered callback is called; the method of  *)
(* the class takes x for the callback to register; anything else that is    *)
(* not a function throws a TypeError.                                       *)
CallField(field) ==
    CASE field = "callback" -> [field |-> "callback", threw |-> FALSE]
      [] field = "method" -> [field |-> "token", threw |-> FALSE]
      [] OTHER -> [field |-> field, threw |-> TRUE]

(* sendAlert: the alert is logged, then onAlert is called *)
SendAlert(d, tokenInfo) ==
    LET called == CallField(d.onAlert)
    IN  [d EXCEPT !.alerted = @ \cup {DiscoveryKey(tokenInfo)},
                  !.onAlert = called.field,
                  !.threw = called.threw]

AddDiscoveredToken(d, tokenInfo) ==
    IF DiscoveryKey(tokenInfo) \in d.discoveredTokens THEN d
    ELSE LET called == CallField(d.onTokenDiscovered)
             recorded == [d EXCEPT !.discoveredTokens = @ \cup {DiscoveryKey(tokenInfo)},
                                   !.onTokenDiscovered = called.field,
                                   !.threw = called.threw]
         IN  IF called.threw THEN recorded
             ELSE IF ShouldAlert(tokenInfo) THEN SendAlert(recorded, tokenInfo)
             ELSE recorded

(* tokens.forEach of processPumpFunData: an exception ends the loop *)
RECURSIVE ProcessPumpFunData(_, _)
ProcessPumpFunData(d, tokens) ==
    IF tokens = <<>> \/ d.threw THEN d
    ELSE ProcessPumpFunData(IF Head(tokens).gem
                            THEN AddDiscoveredToken(d, Head(tokens))
                            ELSE d,
                            Tail(tokens))

(* A batch arrives and is processed; the caller catches what it throws *)
ProcessBatch(tokens) ==
    \E d \in {ProcessPumpFunData([discovery EXCEPT !.threw = FALSE], tokens)} :
       LET gems == {tokens[i] : i \in {j \in 1..Len(tokens) : tokens[j].gem}}
           new == {t \in gems : DiscoveryKey(t) \notin discovery.discoveredTokens}
       IN  discovery' =
              [d EXCEPT
                 !.recordedAll = \A t \in gems : DiscoveryKey(t) \in d.discoveredTokens,
                 !.alertedAll = \A t \in new : ShouldAlert(t) => DiscoveryKey(t) \in d.alerted]

(* engine.onTokenDiscovered(callback), while the name still reads the method *)
RegisterTokenDiscovered ==
    /\ discovery.onTokenDiscovered = "method"
    /\ discovery' = [discovery EXCEPT !.onTokenDiscovered = "callback"]

(* engine.onAlert(callback), while the name still reads the method *)
RegisterAlert ==
    /\ discovery.onAlert = "method"
    /\ discovery' = [discovery EXCEPT !.onAlert = "callback"]

----------------------------------------------------------------------------
(* Specifications *)

(* One monitored position; the manager stays as constructed *)
InitMonitor ==
    /\ MonConstructed
    /\ BotIdle
    /\ NodesIdle
    /\ DiscoveryIdle
    /\ ScorerIdle
    /\ MgrConstructed
    /\ config = [enable_token_sniping |-> FALSE, max_concurrent_strategies |-> 1]
    /\ total_balance_usd = 0
    /\ active_positions = NoPositions

NextMonitor ==
    \/ MonitorForSell /\ UNCHANGED <<mgrVars, scVars, botVars, nodeVars, discVars>>
    \/ Tick /\ UNCHANGED <<mgrVars, scVars, botVars, nodeVars, discVars>>
    \/ (\E c \in BagToSet(cbs) : MonBalance(c)) /\ UNCHANGED <<mgrVars, scVars, botVars, nodeVars, discVars>>
    \/ (\E c \in BagToSet(cbs) : MonPrice(c)) /\ UNCHANGED <<mgrVars, scVars, botVars, nodeVars, discVars>>
    \/ (\E c \in BagToSet(cbs) : SellBalance(c)) /\ UNCHANGED <<mgrVars, scVars, botVars, nodeVars, discVars>>
    \/ (\E c \in BagToSet(cbs) : SellRoutes(c)) /\ UNCHANGED <<mgrVars, scVars, botVars, nodeVars, discVars>>
    \/ (\E c \in BagToSet(cbs) : SellExchange(c)) /\ UNCHANGED <<mgrVars, scVars, botVars, nodeVars, discVars>>
    \/ (\E c \in BagToSet(cbs) : SellExecute(c)) /\ UNCHANGED <<mgrVars, scVars, botVars, nodeVars, discVars>>
    \/ ExternalSale /\ UNCHANGED <<mgrVars, scVars, botVars, nodeVars, discVars>>

SpecMonitor == InitMonitor /\ [][NextMonitor]_vars

(* The component_id of a position opened by a token snipe before the cycles *)
HeldPosition == [kind |-> "token_sniper", at |-> 0]

(* The manager, given a funded portfolio; no position is being monitored *)
InitManager ==
    /\ MonConstructed
    /\ BotIdle
    /\ NodesIdle
    /\ DiscoveryIdle
    /\ ScorerIdle
    /\ held = MaxBal
    /\ MgrConstructed
    /\ config \in [enable_token_sniping : BOOLEAN,
                   max_concurrent_strategies : 0..MaxConcurrent]
    /\ total_balance_usd \in Balances
    /\ active_positions \in
          {NoPositions} \cup
          {[id \in {HeldPosition} |-> [sol_invested |-> s]] :
              s \in {x \in 1..MaxBalanceUnits : x * SolPriceUsd <= total_balance_usd}}

NextManager ==
    \/ Start /\ UNCHANGED <<monVars, scVars, botVars, nodeVars, discVars>>
    \/ Stop /\ UNCHANGED <<monVars, scVars, botVars, nodeVars, discVars>>
    \/ (\E txs \in SeqsUpTo(Transactions, MaxTxs) : OrchestrateMevStrategies(txs))
          /\ UNCHANGED <<monVars, scVars, botVars, nodeVars, discVars>>
    \/ (\E opps \in SeqsUpTo(Opportunities, MaxBatch) : DispatchOpportunities(opps))
          /\ UNCHANGED <<monVars, scVars, botVars, nodeVars, discVars>>

SpecManager == InitManager /\ [][NextManager]_vars

(* The manager holding the position whose exit monitor runs: cycles of the  *)
(* manager interleave with the ticks of the monitor.                        *)
InitPortfolio ==
    /\ MonConstructed
    /\ BotIdle
    /\ NodesIdle
    /\ DiscoveryIdle
    /\ ScorerIdle
    /\ MgrConstructed
    /\ config = [enable_token_sniping |-> FALSE, max_concurrent_strategies |-> 1]
    /\ total_balance_usd = SolPriceUsd
    /\ active_positions = [id \in {HeldPosition} |-> [sol_invested |-> 1]]

NextPortfolio ==
    \/ NextMonitor
    \/ Start /\ UNCHANGED <<monVars, scVars, botVars, nodeVars, discVars>>
    \/ Stop /\ UNCHANGED <<monVars, scVars, botVars, nodeVars, discVars>>
    \/ (\E txs \in SeqsUpTo(Transactions, MaxTxs) : OrchestrateMevStrategies(txs))
          /\ UNCHANGED <<monVars, scVars, botVars, nodeVars, discVars>>

SpecPortfolio == InitPortfolio /\ [][NextPortfolio]_vars

(* One call of the detector, on every request of the bounds *)
InitScorer ==
    /\ MonConstructed
    /\ BotIdle
    /\ NodesIdle
    /\ DiscoveryIdle
    /\ held = MaxBal
    /\ MgrConstructed
    /\ config = [enable_token_sniping |-> FALSE, max_concurrent_strategies |-> 1]
    /\ total_balance_usd = 0
    /\ active_positions = NoPositions
    /\ request \in Requests
    /\ response = NoResponse
    /\ previous = NoResponse
    /\ detectorClock = 0

NextScorer == Detect /\ UNCHANGED <<monVars, mgrVars, botVars, nodeVars, discVars>>

SpecScorer == InitScorer /\ [][NextScorer]_vars

(* One call of the token sniper, on every request of the bounds *)
InitSniper ==
    /\ MonConstructed
    /\ BotIdle
    /\ NodesIdle
    /\ DiscoveryIdle
    /\ held = MaxBal
    /\ MgrConstructed
    /\ config = [enable_token_sniping |-> FALSE, max_concurrent_strategies |-> 1]
    /\ total_balance_usd = 0
    /\ active_positions = NoPositions
    /\ request \in SnipeRequests
    /\ response = NoSnipeResult
    /\ previous = NoResponse
    /\ detectorClock = 0

NextSniper == Snipe /\ UNCHANGED <<monVars, mgrVars, botVars, nodeVars, discVars>>

SpecSniper == InitSniper /\ [][NextSniper]_vars

(* The sniper discovering tokens: the polls of both platforms interleave    *)
(* with the buys they started and with stop().                              *)
InitBot ==
    /\ MonConstructed
    /\ held = MaxBal
    /\ ScorerIdle
    /\ MgrConstructed
    /\ config = [enable_token_sniping |-> FALSE, max_concurrent_strategies |-> 1]
    /\ total_balance_usd = 0
    /\ active_positions = NoPositions
    /\ bot = BotConstructed
    /\ NodesIdle
    /\ DiscoveryIdle

NextBot ==
    \/ StartTokenMonitoring /\ UNCHANGED <<mgrVars, scVars, nodeVars, discVars>>
    \/ (\E coins \in SnipeableCoins : PumpFunPoll(coins)) /\ UNCHANGED <<mgrVars, scVars, nodeVars, discVars>>
    \/ (\E c \in BagToSet(bot.pumpPolls) : \E bought \in BOOLEAN : PumpFunSettles(c, bought))
          /\ UNCHANGED <<mgrVars, scVars, nodeVars, discVars>>
    \/ (\E listing \in Listings : JupiterPoll(listing)) /\ UNCHANGED <<mgrVars, scVars, nodeVars, discVars>>
    \/ (\E key \in bot.jupiterSnipes : \E bought \in BOOLEAN : JupiterSettles(key, bought))
          /\ UNCHANGED <<mgrVars, scVars, nodeVars, discVars>>
    \/ StopSniper /\ UNCHANGED <<mgrVars, scVars, nodeVars, discVars>>

SpecBot == InitBot /\ [][NextBot]_vars

(* The node manager after initialize(), with nodes that fail and recover *)
InitNodes ==
    /\ MonConstructed
    /\ BotIdle
    /\ held = MaxBal
    /\ ScorerIdle
    /\ MgrConstructed
    /\ config = [enable_token_sniping |-> FALSE, max_concurrent_strategies |-> 1]
    /\ total_balance_usd = 0
    /\ active_positions = NoPositions
    /\ nodes = NodesInitialized
    /\ DiscoveryIdle

NextNodes ==
    \/ HealthCheck /\ UNCHANGED <<monVars, mgrVars, scVars, botVars, discVars>>
    \/ (\E chain \in Chains : BlockNumberResolves(chain))
          /\ UNCHANGED <<monVars, mgrVars, scVars, botVars, discVars>>
    \/ (\E chain \in Chains : BlockNumberRejects(chain))
          /\ UNCHANGED <<monVars, mgrVars, scVars, botVars, discVars>>
    \/ (\E chain \in Chains : NodeFails(chain))
          /\ UNCHANGED <<monVars, mgrVars, scVars, botVars, discVars>>
    \/ (\E chain \in Chains : NodeRecovers(chain))
          /\ UNCHANGED <<monVars, mgrVars, scVars, botVars, discVars>>
    \/ (\E chain \in Chains : NewBlock(chain))
          /\ UNCHANGED <<monVars, mgrVars, scVars, botVars, discVars>>

SpecNodes == InitNodes /\ [][NextNodes]_vars

(* The interval keeps firing and every getBlockNumber call settles *)
LiveNodes ==
    /\ SpecNodes
    /\ WF_vars(HealthCheck /\ UNCHANGED <<monVars, mgrVars, scVars, botVars, discVars>>)
    /\ \A chain \in Chains :
          WF_vars((BlockNumberResolves(chain) \/ BlockNumberRejects(chain))
                     /\ UNCHANGED <<monVars, mgrVars, scVars, botVars, discVars>>)

(* The discovery engine: batches arrive before or after the callbacks are   *)
(* registered.                                                              *)
InitDiscovery ==
    /\ MonConstructed
    /\ BotIdle
    /\ NodesIdle
    /\ held = MaxBal
    /\ ScorerIdle
    /\ MgrConstructed
    /\ config = [enable_token_sniping |-> FALSE, max_concurrent_strategies |-> 1]
    /\ total_balance_usd = 0
    /\ active_positions = NoPositions
    /\ discovery = DiscoveryConstructed

NextDiscovery ==
    \/ (\E tokens \in Batches : ProcessBatch(tokens))
          /\ UNCHANGED <<monVars, mgrVars, scVars, botVars, nodeVars>>
    \/ RegisterTokenDiscovered /\ UNCHANGED <<monVars, mgrVars, scVars, botVars, nodeVars>>
    \/ RegisterAlert /\ UNCHANGED <<monVars, mgrVars, scVars, botVars, nodeVars>>

SpecDiscovery == InitDiscovery /\ [][NextDiscovery]_vars

(* The event loop runs the timer while it is live, and every awaited call   *)
(* of a callback settles: it resolves or rejects, with whatever result.     *)
LiveMonitor ==
    /\ SpecMonitor
    /\ WF_vars(MonitorForSell /\ UNCHANGED <<mgrVars, scVars, botVars, nodeVars, discVars>>)
    /\ WF_vars(Tick /\ UNCHANGED <<mgrVars, scVars, botVars, nodeVars, discVars>>)
    /\ WF_vars(CallbackStep /\ UNCHANGED <<mgrVars, scVars, botVars, nodeVars, discVars>>)

----------------------------------------------------------------------------
(* Claims about the exit monitor *)

(* C1: executeSell is triggered at most once per monitored position,        *)
(* whatever the interleaving of ticks with sells and feed calls in flight.  *)
C1_ExitTriggeredAtMostOnce == sellCalls <= 1

(* C2: every position whose monitor was started eventually has its polling  *)
(* timer stopped, whatever the feeds return.                                *)
C2_EventuallyClosed == (mstate = "started") ~> (mstate = "started" /\ ~timerOn)

(* C2 witness: no rule but the time limit closed the position *)
C2_ClosedByTimeLimit ==
    /\ mstate = "started"
    /\ ~timerOn
    /\ closedBy = "time"
    /\ TimeLimitExceeded(now)
    /\ sellCalls = 1

(* C3: on a tick where several exit conditions hold, the profit target is   *)
(* the reason; stop loss only if the profit target does not hold; trailing  *)
(* stop only if neither holds.                                              *)
C3_ExitPriority ==
    /\ decision.profit => decision.reason = "profit"
    /\ (decision.stop /\ ~decision.profit) => decision.reason = "stop"
    /\ decision.reason = "stop" => ~decision.profit
    /\ decision.reason = "trailing" => (~decision.profit /\ ~decision.stop /\ decision.trail)

(* C3 witness: profit target and trailing stop hold on the same tick *)
C3_ProfitAndTrailingTogether ==
    /\ decision.profit
    /\ decision.trail
    /\ decision.reason = "profit"
    /\ lastEvent.op = "price"

(* C4: a tick whose price feed returns no price triggers no exit, leaves    *)
(* the timer as it is and leaves the high-water mark and initial price.     *)
C4_PriceMissSkipsTick ==
    [][(lastEvent'.op = "price" /\ lastEvent'.val = NoPrice) =>
          /\ timerOn' = timerOn
          /\ closedBy' = closedBy
          /\ highestValue' = highestValue
          /\ initialPrice' = initialPrice
          /\ sellCalls' = sellCalls
          /\ BagCardinality(cbs') = BagCardinality(cbs) - 1]_vars

(* C4 witness: a price miss after the monitor has recorded a price, timer live *)
C4_PriceMissed ==
    /\ lastEvent.op = "price"
    /\ lastEvent.val = NoPrice
    /\ timerOn
    /\ initialPrice # NoPrice
    /\ closedBy = "open"

(* C5: a tick whose balance fetch fails is skipped: it never stops the timer *)
C5_BalanceErrorSkipsTick ==
    [][(lastEvent'.op = "balance" /\ ~lastEvent'.ok) => timerOn' = timerOn]_vars

(* C6: a tick within the time limit that reads a balance of zero stops the  *)
(* timer and calls no executeSell; from then on no tick fires and no sell   *)
(* is attempted (no executeSell finds a balance to sell).                   *)
C6_ZeroBalanceStopsWithoutExit ==
    [][/\ (lastEvent'.op = "balance" /\ lastEvent'.ok /\ lastEvent'.val = 0) =>
             (~timerOn' /\ sellCalls' = sellCalls /\ BagCardinality(cbs') = BagCardinality(cbs) - 1)
       /\ zeroSeen =>
             /\ ~timerOn'
             /\ lastEvent'.op # "tick"
             /\ ~(lastEvent'.op = "sell_balance" /\ lastEvent'.val # 0)]_vars

(* C6 witness: the zero balance was read while another tick was still in flight *)
C6_ZeroBalanceRead ==
    /\ zeroSeen
    /\ ~timerOn
    /\ closedBy = "balance_zero"
    /\ sellCalls = 0
    /\ BagCardinality(cbs) > 0

----------------------------------------------------------------------------
(* Claims about the allocator cycle *)

(* C7: in every cycle the capital_used of the strategies dispatched sums to *)
(* at most the capital available at the start of the cycle.                 *)
C7_CycleWithinAvailableCapital == lastCycle.used <= lastCycle.available

C9_UnaffordableSkippedOthersDispatched ==
    ~lastCycle.overdrawn /\ ~lastCycle.passed_over

(* C10: a failure local to one opportunity, a token_snipe opportunity       *)
(* included, never makes the cycle return orchestration_failure.            *)
C10_CycleNeverAborts ==
    lastCycle.entry = "transactions" => lastCycle.result # "orchestration_failure"

(* C11: a cycle invoked while the manager is not active returns              *)
(* manager_inactive, analyses and dispatches nothing, and leaves the        *)
(* portfolio state and the strategy statistics as they were.                *)
C11_InactiveCycleChangesNothing ==
    [][(cycles' # cycles /\ ~isActive) =>
          /\ lastCycle'.result = "manager_inactive"
          /\ lastCycle'.analyzed = 0
          /\ lastCycle'.executed = 0
          /\ lastCycle'.dispatched = {}
          /\ UNCHANGED <<total_balance_usd, active_positions, daily_pnl, total_trades,
                         successful_trades, win_rate, strategyStats>>]_vars

(* C11 witness: the manager was stopped after it had traded, and a cycle was *)
(* then invoked.                                                             *)
C11_InvokedAfterStop ==
    /\ ~isActive
    /\ lastCycle.result = "manager_inactive"
    /\ total_trades > 0
    /\ strategyStats # NoStats

(* C12: after a cycle, active_positions holds an entry for every strategy    *)
(* the cycle dispatched successfully.                                        *)
C12_DispatchOpensPosition ==
    lastCycle.result = "success" => lastCycle.dispatched \subseteq DOMAIN active_positions

(* C13: an opportunity whose dispatch fails is recorded in the statistics of *)
(* its kind, its executions counted and its successes not, and opens no      *)
(* position.                                                                 *)
C13_FailedDispatchRecorded ==
    [][(cycles' # cycles /\ lastCycle'.threw # "none") =>
          LET kind == lastCycle'.threw
              before == IF kind \in DOMAIN strategyStats THEN strategyStats[kind] ELSE NewStats
          IN  /\ kind \in DOMAIN strategyStats'
              /\ strategyStats'[kind].total_executions > before.total_executions
              /\ strategyStats'[kind].total_executions - strategyStats'[kind].successful_executions
                    > before.total_executions - before.successful_executions
              /\ active_positions' = active_positions]_vars

C15_WinRateIsRatio ==
    /\ 0 <= successful_trades /\ successful_trades <= total_trades
    /\ total_trades > 0 =>
          /\ win_rate.den > 0
          /\ win_rate.num * total_trades = successful_trades * win_rate.den
    /\ \A t \in DOMAIN strategyStats :
          LET st == strategyStats[t]
          IN  /\ 0 <= st.successful_executions
              /\ st.successful_executions <= st.total_executions
              /\ st.total_executions > 0
              /\ st.win_rate.den > 0
              /\ st.win_rate.num * st.total_executions
                    = st.successful_executions * st.win_rate.den

(* C15 witness: trades that made a profit and trades that made none *)
C15_MixedOutcomes ==
    /\ successful_trades >= 1
    /\ successful_trades < total_trades
    /\ "sandwich_attack" \in DOMAIN strategyStats
    /\ strategyStats["sandwich_attack"].total_executions >= 2
    /\ strategyStats["sandwich_attack"].successful_executions >= 1

(* C16: across cycles, start() and stop(), no strategy kind loses its        *)
(* statistics, and its total_executions, successful_executions and           *)
(* total_profit never decrease.                                              *)
C16_StatsMonotone ==
    [][\A t \in DOMAIN strategyStats :
          /\ t \in DOMAIN strategyStats'
          /\ strategyStats'[t].total_executions >= strategyStats[t].total_executions
          /\ strategyStats'[t].successful_executions >= strategyStats[t].successful_executions
          /\ strategyStats'[t].total_profit >= strategyStats[t].total_profit]_vars

(* C16 witness: the manager was stopped with statistics of several executions *)
C16_StoppedWithStats ==
    /\ ~isActive
    /\ lastCycle.result = "success"
    /\ "sandwich_attack" \in DOMAIN strategyStats
    /\ strategyStats["sandwich_attack"].total_executions >= 2
    /\ strategyStats["sandwich_attack"].total_profit > 0

----------------------------------------------------------------------------
(* Claims about the detector *)

(* C17: for every input that passes validation the opportunity_score         *)
(* returned is a number from 0 to 100.                                       *)
C17_ScoreInRange ==
    response.kind = "success" =>
        /\ Ge(response.opportunity_score, Num(0))
        /\ Le(response.opportunity_score, Num(MaxScore))

(* C18: for every input that passes validation the net profit reported is    *)
(* the gross profit, position size times price-impact percent / 100, minus   *)
(* the total gas cost of the front-run and the back-run.                     *)
C18_NetIsGrossMinusGas ==
    response.kind = "success" =>
        LET gas == EstimateGasCosts(request.gas)
        IN  /\ response.gross_profit_usd =
                  Mul(response.position_size_usd, Div(response.price_impact_percent, Num(100)))
            /\ response.total_gas_usd =
                  Mul(Add(gas.front_run_gas_eth, gas.back_run_gas_eth),
                      ToNumber(request.gas.eth_price_usd))
            /\ response.estimated_profit =
                  Sub(response.gross_profit_usd, response.total_gas_usd)

(* C18 witness: an opportunity with a gas cost and a profit left after it *)
C18_ProfitAfterGas ==
    /\ response.kind = "success"
    /\ Gt(response.total_gas_usd, Num(0))
    /\ Gt(response.estimated_profit, Num(0))
    /\ Lt(response.estimated_profit, response.gross_profit_usd)

(* C19: for every pool state whose liquidity is not at or above the floor of *)
(* 5000, the value missing included, the detector returns an error and no    *)
(* opportunity.                                                              *)
C19_LowLiquidityRejected ==
    (/\ response.kind # "none"
     /\ ~Ge(ToNumber(request.pool.total_liquidity_usd), Num(MinLiquidityUsd))) =>
        /\ response.kind = "error"
        /\ response.error \in {"insufficient_pool_liquidity", "invalid_transaction_format",
                                "invalid_gas_context"}

(* C20: every event the validation accepts carries a positive trade amount,  *)
(* the one the price-impact computation uses.                                *)
C20_AcceptedAmountPositive ==
    response.kind = "success" =>
        /\ request.tx.amount.defined
        /\ Gt(response.trade_amount, Num(0))

(* C21: whatever its arguments are -- missing, without the fields read, or   *)
(* holding values the arithmetic throws on -- detect_sandwich_opportunity    *)
(* returns a success result or an object with a typed error; no exception   *)
(* leaves it.                                                                *)
C21_NeverThrows ==
    /\ response.kind \in {"none", "success", "error"}
    /\ response.kind = "error" =>
          response.error \in {"invalid_transaction_format", "invalid_gas_context",
                              "insufficient_pool_liquidity", "execution_failure"}
    /\ response.kind = "success" => response.error = "none"

(* An exception of the body was caught and returned as execution_failure *)
C21_ThrownInsideCaught ==
    /\ MixesBigInt(request)
    /\ response.kind = "error"
    /\ response.error = "execution_failure"

C23_KellyCapped ==
    response.kind = "success" =>
        LET p == OrDefault(request.params.expected_win_rate, Ratio(3, 5))
            b == OrDefault(request.params.avg_win_ratio, Num(2))
            balance == ToNumber(request.wallet.available_sol_balance)
        IN  /\ Ge(response.kelly_fraction, Num(0))
            /\ Le(response.kelly_fraction, Ratio(1, 4))
            /\ \A k \in 0..MaxVolatility :
                  Ge(Normalize(k, 4), ToNumber(request.event.estimated_volatility)) =>
                      Le(CalculateKellyFraction(p, b, Normalize(k, 4)), response.kelly_fraction)
            /\ Ge(response.sol_amount, Num(0))
            /\ Le(response.sol_amount, Mul(balance, Ratio(1, 4)))

C25_RankedByScoreThenGas ==
    /\ lastCycle.ranked_by_score
    /\ lastCycle.ties_by_gas

(* C26: a cycle dispatches at most config.max_concurrent_strategies         *)
(* strategies, whatever the limit (0 included) and the batch.               *)
C26_AtMostMaxConcurrent ==
    lastCycle.executed <= config.max_concurrent_strategies

(* C27: every opportunity the analysis of a cycle hands to ranking and      *)
(* dispatch, of either kind, has been scored and has a score above the      *)
(* threshold of 50.                                                         *)
C27_OnlyScoredAboveThreshold ==
    lastCycle.entry = "transactions" => lastCycle.all_scored

(* C28: a tick that finds the time limit exceeded triggers the exit with    *)
(* the time-limit reason at once: it fetches no balance and no price of its *)
(* own and evaluates no profit, stop-loss or trailing-stop condition.       *)
C28_TimeLimitFirst ==
    [][(lastEvent'.op = "tick" /\ TimeLimitExceeded(now')) =>
          /\ sellCalls' = sellCalls + 1
          /\ cbs' = cbs (+) SetToBag({Callback("sell_balance", 0, "time")})
          /\ decision' = NoDecision
          /\ highestValue' = highestValue
          /\ initialPrice' = initialPrice]_vars

(* A tick past the time limit triggered the exit of a position whose price  *)
(* had been observed                                                        *)
C28_TimeLimitTick ==
    /\ lastEvent.op = "tick"
    /\ TimeLimitExceeded(now)
    /\ initialPrice # NoPrice
    /\ BagIn(Callback("sell_balance", 0, "time"), cbs)
    /\ sellCalls = 1

(* C29: the high-water mark never decreases, and after every tick that      *)
(* computed a current value it is the greatest value computed so far, so    *)
(* the trailing stop compares the current value with a mark at least as     *)
(* great.                                                                   *)
C29_HighWaterMark ==
    [][/\ highestValue' >= highestValue
       /\ highestValue' = observedMax'
       /\ observedMax' >= observedMax]_vars

(* The mark stayed above a lower value observed on a later tick *)
C29_MarkAboveLaterValue ==
    /\ lastEvent.op = "price"
    /\ lastEvent.val # NoPrice
    /\ decision.trail
    /\ highestValue > 0
    /\ \E b \in 1..MaxBal : b * lastEvent.val < highestValue

(* C30: the price-impact risk of a scored event is high when the impact is  *)
(* above 5%, medium when it is from 1% to 5% inclusive, low when it is      *)
(* below 1%.                                                                *)
C30_RiskClassification ==
    (response.kind = "success" /\ ~IsNaN(response.price_impact_percent)) =>
        LET impact == response.price_impact_percent IN
        response.price_impact_risk =
            IF Gt(impact, Num(5)) THEN "high"
            ELSE IF Ge(impact, Num(1)) THEN "medium"
            ELSE "low"

(* C31: for every accepted pool that reports its liquidity, the front-run   *)
(* position size is min(10% of the pool liquidity, max(10 x total gas cost, *)
(* 1000)); it is at most 10% of the pool liquidity and at least the minimum *)
(* notional of 1000.                                                        *)
C31_PositionSizeBounds ==
    (/\ response.kind = "success"
     /\ request.pool.total_liquidity_usd.defined
     /\ IsFinite(response.total_gas_usd)) =>
        LET liquidity == ToNumber(request.pool.total_liquidity_usd)
            tenth == Mul(liquidity, Ratio(1, 10))
        IN  /\ response.position_size_usd =
                  MathMin(tenth, MathMax(Mul(response.total_gas_usd, Num(10)),
                                         Num(MinPositionUsd)))
            /\ Le(response.position_size_usd, tenth)
            /\ Ge(response.position_size_usd, Num(MinPositionUsd))

(* C32: whenever the polling timer of a started monitor is stopped, the     *)
(* position is closed: nothing of the token is left in the wallet.          *)
C32_StoppedMeansClosed ==
    (mstate = "started" /\ ~timerOn) => held = 0

(* C33: a result of the detector that the manager admits (success, score    *)
(* above 50) has a net profit estimate above zero; a result whose net       *)
(* profit is zero or negative does not score above 30.                      *)
C33_AdmittedIsProfitable ==
    /\ Admits(response) => Gt(response.estimated_profit, Num(0))
    /\ (response.kind = "success" /\ Le(response.estimated_profit, Num(0))) =>
          ~Gt(response.opportunity_score, Num(ImpactPoints))

(* A result with a finite profit was admitted *)
C33_AdmittedWithProfit ==
    /\ Admits(response)
    /\ IsFinite(response.estimated_profit)
    /\ Gt(response.total_gas_usd, Num(0))
    /\ Lt(response.opportunity_score, Num(MaxScore))

(* C34: after any sequence of cycles, failed ones included, the trades of   *)
(* the portfolio are the executions of the strategies: total_trades is the  *)
(* sum of total_executions over the strategy kinds and successful_trades    *)
(* the sum of their successful_executions.                                  *)
C34_PortfolioMatchesStrategies ==
    LET Of(kind, field) ==
            IF kind \in DOMAIN strategyStats THEN strategyStats[kind][field] ELSE 0
        Sum(field) == Of("sandwich_attack", field) + Of("token_snipe", field)
    IN  /\ total_trades = Sum("total_executions")
        /\ successful_trades = Sum("successful_executions")

(* C35: every pending transaction of a cycle that is addressed to one of    *)
(* the listed DEX routers is recognised as a DEX swap, in whatever letter   *)
(* case its to-address is written.                                          *)
C35_RouterRecognised ==
    lastCycle.entry = "transactions" => lastCycle.routers_recognised

----------------------------------------------------------------------------
(* Claims about the discovery loops of the sniper *)

(* C36: whatever the interleaving of Pump.fun and Jupiter polls, polls that *)
(* overlap an awaited buy included, executeSnipe passes its duplicate guard *)
(* at most once per (token, platform) key.                                  *)
C36_OneBuyPerKey ==
    \A key \in BagToSet(bot.attempts) : CopiesIn(key, bot.attempts) <= 1

(* C36 witness: a later poll reaches the guard with a key whose buy is      *)
(* still awaited by an earlier callback, and is turned away.                *)
C36_OverlappingPollTurnedAway ==
    /\ bot.turnedAway
    /\ bot.pumpPolls # EmptyBag

(* C37: once stop() was called no polling loop attempts a new buy, while    *)
(* the exit monitor of an open position keeps its timer.                    *)
C37_NoSnipeAfterStop ==
    bot.stopped => /\ bot.afterStop = 0
                   /\ (mstate = "started" /\ closedBy = "open" => timerOn)

----------------------------------------------------------------------------
(* Claims about the node manager *)

(* C38: a node that stops answering after it was marked healthy is marked   *)
(* error by a later health check, and a node marked error is marked healthy *)
(* again once it answers with a newer block (unless its condition changes   *)
(* again first).                                                            *)
C38_HealthFollowsCondition ==
    \A chain \in Chains :
       /\ (nodes.node[chain].status = "healthy" /\ ~nodes.responding[chain])
             ~> (nodes.node[chain].status = "error" \/ nodes.responding[chain])
       /\ (/\ nodes.node[chain].status = "error"
           /\ nodes.responding[chain]
           /\ Gt(Num(nodes.height[chain]), ToNumber(nodes.node[chain].last_block)))
             ~> (nodes.node[chain].status = "healthy" \/ ~nodes.responding[chain])

----------------------------------------------------------------------------
(* Claims about the discovery engine *)

(* C39: processing a batch records every qualifying token of the batch and  *)
(* raises an alert for every new token of it that meets the alert criteria, *)
(* whether or not the callbacks are registered and wherever the token       *)
(* stands in the batch.                                                     *)
C39_BatchRecordedAndAlerted ==
    discovery.recordedAll /\ discovery.alertedAll

====
